---- MODULE Spec2Model ----
(***************************************************************************)
(* Model of get_nasa_apod (src/nasa_tools/nasa_apod.py): one invocation of *)
(* the APOD client, from the construction of the query parameters over the *)
(* single HTTP GET to the mapping of the JSON body into NASAAPOD entries.  *)
(*                                                                         *)
(* Python and JSON values are tagged records, so that None, strings,       *)
(* integers, dicts and lists can be told apart the way the code does       *)
(* (truthiness, isinstance(list), presence of a .get method).              *)
(***************************************************************************)
EXTENDS Integers, Sequences, FiniteSets, TLC

VARIABLES pc, opts, params, gets, api_response, json_response,
          raw_data_list, nasa_apods, result

vars == <<pc, opts, params, gets, api_response, json_response,
          raw_data_list, nasa_apods, result>>

(***************************************************************************)
(* Bounds of the model.                                                    *)
(***************************************************************************)
MaxLen == 2
MaxGets == 2

(***************************************************************************)
(* Python / JSON values.                                                   *)
(***************************************************************************)
JNull == [t |-> "null"]
JStr(s) == [t |-> "str", s |-> s]
JInt(n) == [t |-> "int", n |-> n]
JBool(b) == [t |-> "bool", b |-> b]
JObj(f) == [t |-> "obj", f |-> f]
JList(q) == [t |-> "list", q |-> q]

\* Python truthiness, as used by `if count:` and by `or`.
Truthy(v) ==
    CASE v.t = "null" -> FALSE
      [] v.t = "str"  -> v.s # ""
      [] v.t = "int"  -> v.n # 0
      [] v.t = "bool" -> v.b
      [] v.t = "obj"  -> DOMAIN v.f # {}
      [] v.t = "list" -> v.q # <<>>

\* Only a dict has a .get method; on anything else the call raises
\* AttributeError.
HasGet(v) == v.t = "obj"

\* dict.get(key, default)
DictGet(d, k, default) == IF k \in DOMAIN d.f THEN d.f[k] ELSE default

\* isinstance(v, list)
IsList(v) == v.t = "list"

\* A dict literal with an optional key: vs is <<>> (key absent) or <<v>>.
Opt(k, vs) == IF vs = <<>> THEN <<>> ELSE k :> vs[1]

INTERNAL_SERVER_ERROR == 500
OK == 200
NASA_API_KEY == "DEMO_KEY"

(***************************************************************************)
(* Inputs of the call.                                                     *)
(***************************************************************************)
CountValues == {JNull, JInt(0), JInt(2)}
ApodDateValues == {JNull, JStr(""), JStr("2026-01-18")}
StartDateValues == {JNull, JStr(""), JStr("2026-01-01")}
EndDateValues == {JNull, JStr(""), JStr("2026-01-05")}

Options ==
    [api_key : {NASA_API_KEY}, apod_date : ApodDateValues,
     start_date : StartDateValues, end_date : EndDateValues,
     count : CountValues, thumbs : BOOLEAN]

DateKeys == {"count", "date", "start_date", "end_date"}
ModeKeys == {"count", "date", "start_date"}

(***************************************************************************)
(* Lines 69-77: the query parameters.                                      *)
(***************************************************************************)
BaseParams(o) == ("api_key" :> JStr(o.api_key)) @@ ("thumbs" :> JBool(o.thumbs))

\* Variants of SelectParams with a plausible slip each.
\* Independent ifs instead of an if/elif chain.
SelectParamsNoElse(o) ==
    BaseParams(o)
    @@ (IF Truthy(o.count) THEN "count" :> o.count ELSE <<>>)
    @@ (IF Truthy(o.apod_date) THEN "date" :> o.apod_date ELSE <<>>)
    @@ (IF Truthy(o.start_date) THEN "start_date" :> o.start_date ELSE <<>>)
    @@ (IF Truthy(o.start_date) /\ Truthy(o.end_date)
        THEN "end_date" :> o.end_date ELSE <<>>)

\* The single date tested before count.
SelectParamsDateFirst(o) ==
    IF Truthy(o.apod_date) THEN
        BaseParams(o) @@ ("date" :> o.apod_date)
    ELSE IF Truthy(o.count) THEN
        BaseParams(o) @@ ("count" :> o.count)
    ELSE IF Truthy(o.start_date) THEN
        IF Truthy(o.end_date) THEN
            BaseParams(o) @@ ("start_date" :> o.start_date)
                          @@ ("end_date" :> o.end_date)
        ELSE
            BaseParams(o) @@ ("start_date" :> o.start_date)
    ELSE
        BaseParams(o)

\* The end_date test moved out of the start_date branch.
SelectParamsEndAlways(o) ==
    IF Truthy(o.count) THEN
        BaseParams(o) @@ ("count" :> o.count)
    ELSE IF Truthy(o.apod_date) THEN
        BaseParams(o) @@ ("date" :> o.apod_date)
    ELSE
        BaseParams(o)
        @@ (IF Truthy(o.start_date) THEN "start_date" :> o.start_date ELSE <<>>)
        @@ (IF Truthy(o.end_date) THEN "end_date" :> o.end_date ELSE <<>>)

SelectParams(o) ==
    IF Truthy(o.count) THEN
        BaseParams(o) @@ ("count" :> o.count)
    ELSE IF Truthy(o.apod_date) THEN
        BaseParams(o) @@ ("date" :> o.apod_date)
    ELSE IF Truthy(o.start_date) THEN
        IF Truthy(o.end_date) THEN
            BaseParams(o) @@ ("start_date" :> o.start_date)
                          @@ ("end_date" :> o.end_date)
        ELSE
            BaseParams(o) @@ ("start_date" :> o.start_date)
    ELSE
        BaseParams(o)

(***************************************************************************)
(* What the upstream server and the network can do.                        *)
(***************************************************************************)
StatusCodes == {200, 404, 429}
ExceptionDescriptions == {"ConnectionError", "ReadTimeout"}
JSONDecodeError == "Expecting value: line 1 column 1 (char 0)"

\* Entries as the upstream sends them: every combination of media_type,
\* hdurl and thumbnail_url, present or absent.
MediaTypes == {<<>>, <<JStr("image")>>, <<JStr("video")>>, <<JStr("audio")>>}
HdUrls == {<<>>, <<JStr("http://h")>>}
ThumbnailUrls == {<<>>, <<JStr("http://t")>>}

ItemObjects ==
    { JObj(Opt("media_type", m) @@ Opt("hdurl", h) @@ Opt("thumbnail_url", th))
        : m \in MediaTypes, h \in HdUrls, th \in ThumbnailUrls }
    \cup
    { JObj([title |-> JStr("X"), date |-> JStr("2026-01-18"),
            url |-> JStr("http://u"), media_type |-> JStr("image"),
            hdurl |-> JStr("http://h")]),
      JObj([title |-> JStr("Y"), explanation |-> JStr("a video"),
            url |-> JStr("http://v"), media_type |-> JStr("video"),
            thumbnail_url |-> JStr("http://t"), hdurl |-> JNull,
            copyright |-> JStr("C")]) }

\* Error bodies: msg and error, present or absent, in the shapes a server
\* or a proxy in front of it can send.
MsgValues == {<<>>, <<JStr("")>>, <<JStr("bad request")>>}
ErrorValues == {<<>>, <<JStr("denied")>>, <<JObj(<<>>)>>,
                <<JObj([message |-> JStr("rate limited")])>>}

ErrorObjects ==
    { JObj(Opt("msg", m) @@ Opt("error", e)) : m \in MsgValues, e \in ErrorValues }

\* Elements of an array body.
ListElements ==
    { JObj([media_type |-> JStr("image"), hdurl |-> JStr("http://h")]),
      JObj([media_type |-> JStr("video"), thumbnail_url |-> JStr("http://t"),
            hdurl |-> JStr("http://h")]),
      JObj([title |-> JStr("X"), media_type |-> JStr("audio"),
            hdurl |-> JStr("http://h"), thumbnail_url |-> JStr("http://t")]),
      JObj(<<>>),
      JStr("not an object") }

RECURSIVE SeqsUpTo(_, _)
SeqsUpTo(S, n) ==
    IF n = 0 THEN {<<>>}
    ELSE LET shorter == SeqsUpTo(S, n - 1)
         IN  shorter \cup { Append(q, e) : q \in { s \in shorter : Len(s) = n - 1 }, e \in S }

JsonValues ==
    ItemObjects \cup ErrorObjects \cup {JNull, JStr("oops")}
    \cup { JList(q) : q \in SeqsUpTo(ListElements, MaxLen) }

Bodies ==
    { [json |-> TRUE, value |-> v] : v \in JsonValues }
    \cup { [json |-> FALSE, text |-> "<html>Bad Gateway</html>"] }

Outcomes ==
    { [kind |-> "exception", desc |-> d] : d \in ExceptionDescriptions }
    \cup { [kind |-> "response", status_code |-> s, body |-> b]
             : s \in StatusCodes, b \in Bodies }

(***************************************************************************)
(* Results.                                                                *)
(***************************************************************************)
NoResult == [kind |-> "none"]
ErrorDetails(status_code, message) ==
    [kind |-> "ErrorDetails", status_code |-> status_code, message |-> message]
NASAAPODResponse(apods) == [kind |-> "NASAAPODResponse", nasa_apods |-> apods]
\* An exception that leaves get_nasa_apod uncaught.
Raised(exc) == [kind |-> "raised", exc |-> exc]

FailPrefix == "Failed to connect or parse JSON: "

\* Variant: the exception is dropped from the message.
ConnectOrParseErrorNoDesc(desc) ==
    ErrorDetails(INTERNAL_SERVER_ERROR, JStr(FailPrefix))

\* Lines 83-87.
ConnectOrParseError(desc) ==
    ErrorDetails(INTERNAL_SERVER_ERROR, JStr(FailPrefix \o desc))

\* Line 91: the message of an upstream rejection; <<>> when the
\* expression raises AttributeError.
ErrorMsg(j) ==
    IF ~HasGet(j) THEN <<>>
    ELSE LET msg == DictGet(j, "msg", JNull)
         IN  IF Truthy(msg) THEN <<msg>>
             ELSE LET err == DictGet(j, "error", JObj(<<>>))
                  IN  IF ~HasGet(err) THEN <<>>
                      ELSE <<DictGet(err, "message", JStr("Unknown error"))>>

\* Variant: hdurl and thumbnail_url copied whatever the media type.
MapItemNoMediaType(item) ==
    [apod_title |-> DictGet(item, "title", JStr("Untitled")),
     explanation |-> DictGet(item, "explanation", JStr("")),
     date |-> DictGet(item, "date", JStr("")),
     multimedia_link |-> DictGet(item, "url", JStr("")),
     copyright_person_name |-> DictGet(item, "copyright", JNull),
     hd_multimedia_link |-> DictGet(item, "hdurl", JNull),
     video_thumbnail_url |-> DictGet(item, "thumbnail_url", JNull)]

\* Lines 99-109: one entry.
MapItem(item) ==
    LET m_type == DictGet(item, "media_type", JNull)
    IN  [apod_title |-> DictGet(item, "title", JStr("Untitled")),
         explanation |-> DictGet(item, "explanation", JStr("")),
         date |-> DictGet(item, "date", JStr("")),
         multimedia_link |-> DictGet(item, "url", JStr("")),
         copyright_person_name |-> DictGet(item, "copyright", JNull),
         hd_multimedia_link |->
             IF m_type = JStr("image") THEN DictGet(item, "hdurl", JNull) ELSE JNull,
         video_thumbnail_url |->
             IF m_type = JStr("video") THEN DictGet(item, "thumbnail_url", JNull) ELSE JNull]

\* Variant: list.insert(0, ...) instead of list.append.
AppendEntryFront(list, e) == <<e>> \o list

\* Line 100: list.append
AppendEntry(list, e) == Append(list, e)

\* Line 95.
Normalize(j) == IF IsList(j) THEN j.q ELSE <<j>>

(***************************************************************************)
(* The call.                                                               *)
(***************************************************************************)
Init ==
    /\ pc = "start"
    /\ opts \in Options
    /\ params = <<>>
    /\ gets = 0
    /\ api_response = NoResult
    /\ json_response = JNull
    /\ raw_data_list = <<>>
    /\ nasa_apods = <<>>
    /\ result = NoResult

\* Lines 69-77.
BuildParams ==
    /\ pc = "start"
    /\ params' = SelectParams(opts)
    /\ pc' = "request"
    /\ UNCHANGED <<opts, gets, api_response, json_response, raw_data_list,
                   nasa_apods, result>>

\* Variant: a failed request is tried again.
HttpGetRetry ==
    /\ pc = "request"
    /\ gets < MaxGets
    /\ gets' = gets + 1
    /\ \E o \in Outcomes :
         /\ api_response' = o
         /\ IF o.kind = "exception"
            THEN IF gets + 1 < MaxGets
                 THEN /\ result' = result
                      /\ pc' = "request"
                 ELSE /\ result' = ConnectOrParseError(o.desc)
                      /\ pc' = "done"
            ELSE /\ result' = result
                 /\ pc' = "json"
    /\ UNCHANGED <<opts, params, json_response, raw_data_list, nasa_apods>>

\* Line 81: requests.get either raises or returns a response; lines 83-87
\* catch what it raises.
HttpGet ==
    /\ pc = "request"
    /\ gets < MaxGets
    /\ gets' = gets + 1
    /\ \E o \in Outcomes :
         /\ api_response' = o
         /\ IF o.kind = "exception"
            THEN /\ result' = ConnectOrParseError(o.desc)
                 /\ pc' = "done"
            ELSE /\ result' = result
                 /\ pc' = "json"
    /\ UNCHANGED <<opts, params, json_response, raw_data_list, nasa_apods>>

\* Line 82: api_response.json(); lines 83-87 catch the decoding error.
ParseJson ==
    /\ pc = "json"
    /\ IF api_response.body.json
       THEN /\ json_response' = api_response.body.value
            /\ pc' = "status"
            /\ result' = result
       ELSE /\ result' = ConnectOrParseError(JSONDecodeError)
            /\ pc' = "done"
            /\ json_response' = json_response
    /\ UNCHANGED <<opts, params, gets, api_response, raw_data_list, nasa_apods>>

\* Lines 89-97.
CheckStatus ==
    /\ pc = "status"
    /\ IF api_response.status_code # OK
       THEN /\ result' = IF ErrorMsg(json_response) = <<>>
                         THEN Raised("AttributeError")
                         ELSE ErrorDetails(api_response.status_code,
                                           ErrorMsg(json_response)[1])
            /\ pc' = "done"
            /\ UNCHANGED <<raw_data_list, nasa_apods>>
       ELSE /\ raw_data_list' = Normalize(json_response)
            /\ nasa_apods' = <<>>
            /\ pc' = "loop"
            /\ result' = result
    /\ UNCHANGED <<opts, params, gets, api_response, json_response>>

\* Lines 98-110: one iteration; raw_data_list holds the items still to map.
LoopStep ==
    /\ pc = "loop"
    /\ raw_data_list # <<>>
    /\ LET item == Head(raw_data_list)
       IN  IF HasGet(item)
           THEN /\ nasa_apods' = AppendEntry(nasa_apods, MapItem(item))
                /\ raw_data_list' = Tail(raw_data_list)
                /\ pc' = "loop"
                /\ result' = result
           ELSE /\ result' = Raised("AttributeError")
                /\ pc' = "done"
                /\ UNCHANGED <<raw_data_list, nasa_apods>>
    /\ UNCHANGED <<opts, params, gets, api_response, json_response>>

\* Line 112.
Return ==
    /\ pc = "loop"
    /\ raw_data_list = <<>>
    /\ result' = NASAAPODResponse(nasa_apods)
    /\ pc' = "done"
    /\ UNCHANGED <<opts, params, gets, api_response, json_response,
                   raw_data_list, nasa_apods>>

Next == BuildParams \/ HttpGet \/ ParseJson \/ CheckStatus \/ LoopStep \/ Return

Spec == Init /\ [][Next]_vars

Done == pc = "done"
Built == pc # "start"
IsResponse == api_response.kind = "response"
IsJsonResponse == IsResponse /\ api_response.body.json

(***************************************************************************)
(* Properties of the query parameters.                                     *)
(***************************************************************************)

\* C2 (as stated): whenever count is supplied (any integer, 0 included),
\* the request contains count and none of date, start_date, end_date.
CountSetSendsOnlyCount ==
    (Built /\ opts.count # JNull) =>
        /\ "count" \in DOMAIN params
        /\ DOMAIN params \cap {"date", "start_date", "end_date"} = {}

\* C2 (amended): whenever count is supplied and is not 0, the request
\* contains count, with the supplied value, and none of date, start_date,
\* end_date.
NonZeroCountSendsOnlyCount ==
    (Built /\ Truthy(opts.count)) =>
        /\ "count" \in DOMAIN params
        /\ params["count"] = opts.count
        /\ DOMAIN params \cap {"date", "start_date", "end_date"} = {}

NonZeroCountWitness ==
    /\ pc = "request"
    /\ opts.count = JInt(2)
    /\ Truthy(opts.apod_date) /\ Truthy(opts.start_date) /\ Truthy(opts.end_date)
    /\ DOMAIN params = {"api_key", "thumbs", "count"}

\* C3: the request carries at most one of count, date, start_date; the one
\* it carries is the first truthy option in the order count, date,
\* start_date, with the value supplied; and when none of the three is
\* supplied no date-related key is sent at all.
AtMostOneMode ==
    Built =>
        /\ Cardinality(DOMAIN params \cap ModeKeys) <= 1
        /\ Truthy(opts.count) =>
               "count" \in DOMAIN params /\ params["count"] = opts.count
        /\ (~Truthy(opts.count) /\ Truthy(opts.apod_date)) =>
               "date" \in DOMAIN params /\ params["date"] = opts.apod_date
        /\ (~Truthy(opts.count) /\ ~Truthy(opts.apod_date) /\ Truthy(opts.start_date)) =>
               "start_date" \in DOMAIN params /\ params["start_date"] = opts.start_date
        /\ (~Truthy(opts.count) /\ ~Truthy(opts.apod_date) /\ ~Truthy(opts.start_date)) =>
               DOMAIN params \cap DateKeys = {}
        /\ (opts.count = JNull /\ opts.apod_date = JNull /\ opts.start_date = JNull) =>
               DOMAIN params \cap DateKeys = {}

AtMostOneModeWitness ==
    /\ pc = "request"
    /\ Truthy(opts.count) /\ Truthy(opts.apod_date) /\ Truthy(opts.start_date)
    /\ DOMAIN params \cap ModeKeys = {"count"}

\* C4 (as stated): end_date is sent only together with start_date, and it
\* is sent exactly when count and apod_date are not supplied and start_date
\* and end_date are supplied.
EndDateIffSet ==
    Built =>
        /\ "end_date" \in DOMAIN params => "start_date" \in DOMAIN params
        /\ "end_date" \in DOMAIN params <=>
               /\ opts.count = JNull /\ opts.apod_date = JNull
               /\ opts.start_date # JNull /\ opts.end_date # JNull

\* C4 (amended): end_date is sent only together with start_date, and it is
\* sent exactly when count and apod_date are falsy (not supplied, 0, or the
\* empty string) and start_date and end_date are truthy (non-empty); with
\* only start_date supplied end_date is omitted, and with only end_date
\* supplied no date-related key is sent.
EndDateIffTruthy ==
    Built =>
        /\ "end_date" \in DOMAIN params =>
               "start_date" \in DOMAIN params /\ params["end_date"] = opts.end_date
        /\ "end_date" \in DOMAIN params <=>
               /\ ~Truthy(opts.count) /\ ~Truthy(opts.apod_date)
               /\ Truthy(opts.start_date) /\ Truthy(opts.end_date)
        /\ (opts.count = JNull /\ opts.apod_date = JNull
              /\ Truthy(opts.start_date) /\ opts.end_date = JNull) =>
               DOMAIN params \cap DateKeys = {"start_date"}
        /\ (opts.count = JNull /\ opts.apod_date = JNull
              /\ opts.start_date = JNull /\ opts.end_date # JNull) =>
               DOMAIN params \cap DateKeys = {}

EndDateWitness ==
    /\ pc = "request"
    /\ opts.count = JInt(0) /\ opts.apod_date = JStr("")
    /\ Truthy(opts.start_date) /\ Truthy(opts.end_date)
    /\ DOMAIN params \cap DateKeys = {"start_date", "end_date"}

(***************************************************************************)
(* Properties of the result.                                               *)
(***************************************************************************)

\* C1: the call never raises: whatever the options and whatever the
\* upstream does, it ends with a NASAAPODResponse or an ErrorDetails.
NeverRaises ==
    Done => result.kind \in {"NASAAPODResponse", "ErrorDetails"}

\* C5: whenever the upstream status is not 200, whatever the body, the
\* result is an ErrorDetails carrying the status code of the server.
NonOkGivesServerStatus ==
    (Done /\ IsResponse /\ api_response.status_code # OK) =>
        /\ result.kind = "ErrorDetails"
        /\ result.status_code = api_response.status_code

\* C6: for a non-200 response with a JSON object body the message is the
\* msg field if present, else the nested error.message field if present,
\* else "Unknown error".
ErrorMessageByPresence ==
    (Done /\ IsJsonResponse /\ api_response.status_code # OK
          /\ api_response.body.value.t = "obj") =>
        LET body == api_response.body.value.f
        IN  /\ result.kind = "ErrorDetails"
            /\ result.status_code = api_response.status_code
            /\ result.message =
                 IF "msg" \in DOMAIN body THEN body["msg"]
                 ELSE IF /\ "error" \in DOMAIN body
                         /\ body["error"].t = "obj"
                         /\ "message" \in DOMAIN body["error"].f
                      THEN body["error"].f["message"]
                      ELSE JStr("Unknown error")

\* C7: when the HTTP call raises or the body is not JSON, the result is an
\* ErrorDetails with status 500 whose message is the fixed prefix followed
\* by the description of the exception, and no entry is returned.
TransportFailureIs500 ==
    (Done /\ ~IsJsonResponse) =>
        LET desc == IF IsResponse THEN JSONDecodeError ELSE api_response.desc
        IN  /\ result.kind = "ErrorDetails"
            /\ result.status_code = 500
            /\ result.message = JStr("Failed to connect or parse JSON: " \o desc)
            /\ nasa_apods = <<>>

TransportFailureWitness ==
    /\ Done
    /\ api_response.kind = "exception"
    /\ api_response.desc = "ReadTimeout"
    /\ result.kind = "ErrorDetails"

\* C8: in every entry of every batch (also of the batch under
\* construction) hd_multimedia_link and video_thumbnail_url are never both
\* non-null; hd_multimedia_link is non-null only if the upstream entry has
\* media_type "image" and an hdurl, video_thumbnail_url only if it has
\* media_type "video" and a thumbnail_url.
HdAndThumbnailExclusive ==
    \A i \in 1..Len(nasa_apods) :
        LET e == nasa_apods[i]
            item == Normalize(json_response)[i].f
        IN  /\ ~(e.hd_multimedia_link # JNull /\ e.video_thumbnail_url # JNull)
            /\ e.hd_multimedia_link # JNull =>
                   /\ "media_type" \in DOMAIN item
                   /\ item["media_type"] = JStr("image")
                   /\ "hdurl" \in DOMAIN item
                   /\ e.hd_multimedia_link = item["hdurl"]
            /\ e.video_thumbnail_url # JNull =>
                   /\ "media_type" \in DOMAIN item
                   /\ item["media_type"] = JStr("video")
                   /\ "thumbnail_url" \in DOMAIN item
                   /\ e.video_thumbnail_url = item["thumbnail_url"]
            /\ (result.kind = "NASAAPODResponse" => result.nasa_apods = nasa_apods)

HdAndThumbnailWitness ==
    /\ Done
    /\ result.kind = "NASAAPODResponse"
    /\ Len(result.nasa_apods) = 2
    /\ result.nasa_apods[1].hd_multimedia_link = JStr("http://h")
    /\ result.nasa_apods[2].video_thumbnail_url = JStr("http://t")
    /\ "hdurl" \in DOMAIN json_response.q[2].f

\* C9: on a 200 response whose body is an array of N objects (N = 0
\* included) the batch has exactly N entries and entry i is the mapping of
\* element i; a single object gives a batch of exactly one entry.
OneEntryPerObjectInOrder ==
    (Done /\ IsJsonResponse /\ api_response.status_code = OK) =>
        LET body == api_response.body.value
        IN  /\ (body.t = "list" /\ \A i \in 1..Len(body.q) : body.q[i].t = "obj") =>
                   /\ result.kind = "NASAAPODResponse"
                   /\ Len(result.nasa_apods) = Len(body.q)
                   /\ \A i \in 1..Len(body.q) :
                          result.nasa_apods[i] = MapItem(body.q[i])
            /\ body.t = "obj" =>
                   /\ result.kind = "NASAAPODResponse"
                   /\ result.nasa_apods = <<MapItem(body)>>

OneEntryPerObjectWitness ==
    /\ Done
    /\ IsJsonResponse /\ api_response.status_code = OK
    /\ api_response.body.value.t = "list"
    /\ Len(api_response.body.value.q) >= 2
    /\ api_response.body.value.q[1] # api_response.body.value.q[2]
    /\ result.kind = "NASAAPODResponse"
    /\ Len(result.nasa_apods) = Len(api_response.body.value.q)
    /\ result.nasa_apods[1] # result.nasa_apods[2]

\* C10: an invocation issues exactly one HTTP GET in every outcome: none
\* before the request, one from then on, never a second one after a
\* failure, and a result exists only once that request is over.
ExactlyOneGet ==
    /\ pc \in {"start", "request"} => gets = 0
    /\ pc \notin {"start", "request"} => gets = 1
    /\ result # NoResult => (Done /\ gets = 1)

ExactlyOneGetWitness ==
    /\ Done
    /\ gets = 1
    /\ api_response.kind = "exception"
    /\ result = ErrorDetails(500, JStr(FailPrefix \o "ConnectionError"))
====
